---- MODULE Spec2Model ----
(***************************************************************************)
(* A model of src/satander_extract.py: the column deduplicator, the date   *)
(* normaliser, the details decomposer (parse_details) and the two anchor   *)
(* based sheet segmenters (parse_holdings_sheet, parse_transactions_sheet).*)
(*                                                                         *)
(* A Python str is a sequence of one-character strings. A grid cell is a   *)
(* record [k, v]: k is the cell's variant ("str", "num", "nan", "none")    *)
(* and v is what Python's str() gives for it, so str(cell) is cell.v and   *)
(* isinstance(cell, str) is cell.k = "str".                                *)
(***************************************************************************)
EXTENDS Integers, Sequences, FiniteSets, TLC

VARIABLES pc, fn, arg, ret

vars == <<pc, fn, arg, ret>>

(***************************************************************************)
(* Characters and the str methods the program uses.                        *)
(***************************************************************************)
Chars(str) == [i \in 1..Len(str) |-> SubSeq(str, i, i)]

Range(f) == {f[i] : i \in DOMAIN f}

Min(S) == CHOOSE x \in S : \A y \in S : x <= y

Max(S) == CHOOSE x \in S : \A y \in S : x >= y

UpperSeq == Chars("ABCDEFGHIJKLMNOPQRSTUVWXYZÚ")

LowerSeq == Chars("abcdefghijklmnopqrstuvwxyzú")

AZ == Range(Chars("ABCDEFGHIJKLMNOPQRSTUVWXYZ"))

az == Range(Chars("abcdefghijklmnopqrstuvwxyz"))

Digits == Range(Chars("0123456789"))

WS == {" ", "\t", "\n", "\r"}

\* \w of the re module
WordChars == Range(UpperSeq) \cup Range(LowerSeq) \cup Digits \cup {"_"}

\* [A-Z ] of the type and advice-type patterns
AZsp == AZ \cup {" "}

\* [A-Z0-9.\-] under re.I
AdvChars == AZ \cup az \cup Digits \cup {".", "-"}

\* [\d,.]
NumChars == Digits \cup {",", "."}

UpperOf == [c \in Range(LowerSeq) |-> UpperSeq[CHOOSE i \in DOMAIN LowerSeq : LowerSeq[i] = c]]

upperChar(c) == IF c \in DOMAIN UpperOf THEN UpperOf[c] ELSE c

upper(s) == [i \in 1..Len(s) |-> upperChar(s[i])]

\* s[a:b] of Python on 1-based positions: the characters a .. b-1
Slice(s, a, b) == SubSeq(s, a, b - 1)

\* the position after the longest run of characters of C that starts at i
RECURSIVE RunEnd(_, _, _)
RunEnd(s, i, C) == IF i > Len(s) \/ s[i] \notin C THEN i ELSE RunEnd(s, i + 1, C)

\* the position before the longest run of characters of C that ends at i
RECURSIVE RunStart(_, _, _)
RunStart(s, i, C) == IF i < 1 \/ s[i] \notin C THEN i ELSE RunStart(s, i - 1, C)

lstrip(s, C) == Slice(s, RunEnd(s, 1, C), Len(s) + 1)

rstrip(s, C) == Slice(s, 1, RunStart(s, Len(s), C) + 1)

strip(s, C) == rstrip(lstrip(s, C), C)

startswithAt(s, i, t) == i + Len(t) - 1 <= Len(s) /\ Slice(s, i, i + Len(t)) = t

endswith(s, t) == Len(t) <= Len(s) /\ Slice(s, Len(s) - Len(t) + 1, Len(s) + 1) = t

\* str.replace for a non-empty old: every non-overlapping occurrence, left to
\* right. taken is the set of occurrences the left-to-right scan replaces: an
\* occurrence is taken unless a taken one before it overlaps it.
replace(s, old, new) ==
    LET L == Len(old)
        N == Len(new)
        occ == {j \in 1..(Len(s) - L + 1) : Slice(s, j, j + L) = old}
        taken ==
            IF \A i, j \in occ : i < j => i + L <= j
            THEN occ
            ELSE CHOOSE X \in SUBSET occ :
                     \A j \in occ : (j \in X) <=> ~(\E t \in X : t < j /\ j < t + L)
        \* where the text that replaces position p of s begins in the result
        base(p) == (p - 1) + Cardinality({t \in taken : t < p}) * (N - L)
        covered(p) == \E t \in taken : t <= p /\ p < t + L
        outLen == Len(s) + Cardinality(taken) * (N - L)
    IN  [k \in 1..outLen |->
            IF \E t \in taken : base(t) < k /\ k <= base(t) + N
            THEN new[k - base(CHOOSE t \in taken : base(t) < k /\ k <= base(t) + N)]
            ELSE s[CHOOSE p \in 1..Len(s) : ~covered(p) /\ base(p) + 1 = k]]

\* Python's None among strings, and a key that a dict does not hold
None == <<"<None>">>

Absent == <<"<absent>">>

\* the string literals of the program
s_ADVICE_HASH == Chars("ADVICE#")

s_FX == Chars("FX")

s_QUANTIDADE == Chars("QUANTIDADE")

s_ADVICE == Chars("ADVICE")

s_SP20 == Chars(" 20")

s_SECURITIES == Chars("SECURITIES")

s_DATA == Chars("DATA")

s_DATE == Chars("DATE")

s_Portfolio == Chars("Portfolio")

s_AssetType == Chars("AssetType")

s_AssetName == Chars("AssetName")

s_CARTEIRA == Chars("CARTEIRA")

s_DETALHES == Chars("DETALHES")

s_DETAILS == Chars("DETAILS")

(***************************************************************************)
(* Cells.                                                                  *)
(***************************************************************************)
Str(s) == [k |-> "str", v |-> s]

Num(s) == [k |-> "num", v |-> s]

NaN == [k |-> "nan", v |-> Chars("nan")]

NoneCell == [k |-> "none", v |-> Chars("None")]

\* a string or None as a cell
AsCell(x) == IF x = None THEN NoneCell ELSE Str(x)

UPPER_STRIP(c) == IF c.k = "str" THEN strip(upper(c.v), WS) ELSE <<>>

KEYWORDS_SKIP ==
    {Chars("RESUMO DE ATIVOS"), Chars("NOME DO ATIVO"), Chars("RENDA FIXA"),
     Chars("CURTO PRAZO"), Chars("TOTAL")}

MONTH_PT_EN ==
    [k \in 1..12 |->
        << Chars(<<"JAN", "FEV", "MAR", "ABR", "MAI", "JUN", "JUL", "AGO", "SET", "OUT", "NOV", "DEZ">>[k]),
           Chars(<<"JAN", "FEB", "MAR", "APR", "MAY", "JUN", "JUL", "AUG", "SEP", "OCT", "NOV", "DEC">>[k]) >>]

(***************************************************************************)
(* The compiled patterns. A match is [found, s, e, g]: the match spans the *)
(* positions s .. e-1 and g holds its groups. Each pattern's backtracking  *)
(* is worked out for that pattern: a greedy run followed by \b ends at the *)
(* last position of the run where a word boundary is.                      *)
(***************************************************************************)
NoMatch == [found |-> FALSE, s |-> 0, e |-> 0, g |-> <<>>]

Match(s, e, g) == [found |-> TRUE, s |-> s, e |-> e, g |-> g]

\* Pattern.search: the match at the leftmost position that has one
Search(t, At(_, _)) ==
    LET hits == {i \in 1..Len(t) : At(t, i).found}
    IN  IF hits = {} THEN NoMatch ELSE At(t, Min(hits))

\* \b at position p (between t[p-1] and t[p])
Boundary(t, p) ==
    LET a == p > 1 /\ p - 1 <= Len(t) /\ t[p - 1] \in WordChars
        b == p >= 1 /\ p <= Len(t) /\ t[p] \in WordChars
    IN  a # b

In(t, p, C) == p >= 1 /\ p <= Len(t) /\ t[p] \in C

\* ADVICE#\s*[:#]?\s*-?\s*([A-Z0-9.\-]+), re.I
RE_ADVICE_at(t, i) ==
    LET p1 == RunEnd(t, i + 7, WS)
        p2 == IF In(t, p1, {":", "#"}) THEN p1 + 1 ELSE p1
        p3 == RunEnd(t, p2, WS)
        p4 == IF In(t, p3, {"-"}) THEN p3 + 1 ELSE p3
        p5 == RunEnd(t, p4, WS)
        c5 == RunEnd(t, p5, AdvChars)
        \* -? gives its "-" back when no code follows it: the code is the "-" run
        c3 == RunEnd(t, p3, AdvChars)
    IN  IF ~(i + 6 <= Len(t) /\ upper(Slice(t, i, i + 7)) = s_ADVICE_HASH)
        THEN NoMatch
        ELSE IF c5 > p5 THEN Match(i, c5, <<Slice(t, p5, c5)>>)
        ELSE IF p4 > p3 THEN Match(i, c3, <<Slice(t, p3, c3)>>)
        ELSE NoMatch

RE_ADVICE(t) == Search(t, RE_ADVICE_at)

\* \bFX\d{8,}\b, re.I
RE_FX_CODE_at(t, i) ==
    LET d == RunEnd(t, i + 2, Digits)
    IN  IF /\ Boundary(t, i)
           /\ i + 1 <= Len(t)
           /\ upper(Slice(t, i, i + 2)) = s_FX
           /\ d - (i + 2) >= 8
           /\ Boundary(t, d)
        THEN Match(i, d, <<>>)
        ELSE NoMatch

RE_FX_CODE(t) == Search(t, RE_FX_CODE_at)

\* \b[A-Z]{4,}\d{6,}[A-Z0-9.\-]*\b, re.I
RE_GENERIC_ADV_at(t, i) ==
    LET l == RunEnd(t, i, AZ \cup az)
        d == RunEnd(t, l, Digits)
        z == RunEnd(t, d, AdvChars)
        ends == {e \in (l + 6)..z : Boundary(t, e)}
    IN  IF Boundary(t, i) /\ l - i >= 4 /\ d - l >= 6 /\ ends # {}
        THEN Match(i, Max(ends), <<>>)
        ELSE NoMatch

RE_GENERIC_ADV(t) == Search(t, RE_GENERIC_ADV_at)

\* \b([A-Z]{3})\b
RE_CCY_at(t, i) ==
    IF /\ Boundary(t, i)
       /\ In(t, i, AZ) /\ In(t, i + 1, AZ) /\ In(t, i + 2, AZ)
       /\ Boundary(t, i + 3)
    THEN Match(i, i + 3, <<Slice(t, i, i + 3)>>)
    ELSE NoMatch

\* RE_CCY.findall: the groups of the matches, left to right
RECURSIVE RE_CCY_findall_from(_, _)
RE_CCY_findall_from(t, p) ==
    IF p > Len(t) THEN <<>>
    ELSE IF RE_CCY_at(t, p).found
         THEN <<RE_CCY_at(t, p).g[1]>> \o RE_CCY_findall_from(t, p + 3)
         ELSE RE_CCY_findall_from(t, p + 1)

RE_CCY_findall(t) == RE_CCY_findall_from(t, 1)

\* \b(\d[\d,.]*)/\s*(\d[\d,.]*)\b
RE_SLASH_QTY_at(t, i) ==
    LET r1 == RunEnd(t, i + 1, NumChars)
        w == RunEnd(t, r1 + 1, WS)
        r2 == RunEnd(t, w + 1, NumChars)
        ends == {e \in (w + 1)..r2 : Boundary(t, e)}
    IN  IF /\ Boundary(t, i)
           /\ In(t, i, Digits)
           /\ In(t, r1, {"/"})
           /\ In(t, w, Digits)
           /\ ends # {}
        THEN Match(i, Max(ends), <<Slice(t, i, r1), Slice(t, w, Max(ends))>>)
        ELSE NoMatch

RE_SLASH_QTY(t) == Search(t, RE_SLASH_QTY_at)

\* \b\d[\d,.]*\b
RE_QTY_STANDALONE_at(t, i) ==
    LET r == RunEnd(t, i + 1, NumChars)
        ends == {e \in (i + 1)..r : Boundary(t, e)}
    IN  IF Boundary(t, i) /\ In(t, i, Digits) /\ ends # {}
        THEN Match(i, Max(ends), <<>>)
        ELSE NoMatch

RE_QTY_STANDALONE(t) == Search(t, RE_QTY_STANDALONE_at)

\* QUANTIDADE\s*<n>[:\s]+(\d[\d,.]*), re.I
RE_QTY_PT_at(t, i, n) ==
    LET p == RunEnd(t, i + 10, WS)
        q == RunEnd(t, p + 1, WS \cup {":"})
        r == RunEnd(t, q + 1, NumChars)
    IN  IF /\ i + 9 <= Len(t)
           /\ upper(Slice(t, i, i + 10)) = s_QUANTIDADE
           /\ In(t, p, {n})
           /\ q > p + 1
           /\ In(t, q, Digits)
        THEN Match(i, r, <<Slice(t, q, r)>>)
        ELSE NoMatch

RE_QTY_PT1_at(t, i) == RE_QTY_PT_at(t, i, "1")

RE_QTY_PT2_at(t, i) == RE_QTY_PT_at(t, i, "2")

RE_QTY_PT1(t) == Search(t, RE_QTY_PT1_at)

RE_QTY_PT2(t) == Search(t, RE_QTY_PT2_at)

\* \b\d{2}[A-Z]{3}\d{2}\b
RE_DATE_TOKEN_at(t, i) ==
    IF /\ Boundary(t, i)
       /\ In(t, i, Digits) /\ In(t, i + 1, Digits)
       /\ In(t, i + 2, AZ) /\ In(t, i + 3, AZ) /\ In(t, i + 4, AZ)
       /\ In(t, i + 5, Digits) /\ In(t, i + 6, Digits)
       /\ Boundary(t, i + 7)
    THEN Match(i, i + 7, <<>>)
    ELSE NoMatch

RE_DATE_TOKEN(t) == Search(t, RE_DATE_TOKEN_at)

RE_DATE_TOKEN_fullmatch(t) == Len(t) = 7 /\ RE_DATE_TOKEN_at(t, 1).found

\* re.match(r"^[A-Z ]+", txt)
RE_TIPO(t) ==
    LET r == RunEnd(t, 1, AZsp)
    IN  IF r > 1 THEN Match(1, r, <<>>) ELSE NoMatch

\* re.search(r'[A-Z ]+ADVICE', txt): the run gives back until ADVICE follows
RE_ADVTYPE_at(t, i) ==
    LET r == RunEnd(t, i, AZsp)
        occ == {e \in (i + 1)..(r - 6) : Slice(t, e, e + 6) = s_ADVICE}
    IN  IF In(t, i, AZsp) /\ occ # {}
        THEN Match(i, Max(occ) + 6, <<>>)
        ELSE NoMatch

RE_ADVTYPE(t) == Search(t, RE_ADVTYPE_at)

group0(t, m) == Slice(t, m.s, m.e)

(***************************************************************************)
(* normalize_date. dtparser.parse is the dateutil library: it is modelled  *)
(* on the strings "DD MMM YYYY" (what the compact-token path builds), with *)
(* an English month abbreviation and a day that exists in that month; any  *)
(* other string counts as one it cannot parse.                             *)
(***************************************************************************)
MonthsEN ==
    [m \in 1..12 |->
        Chars(<<"JAN", "FEB", "MAR", "APR", "MAY", "JUN", "JUL", "AUG", "SEP", "OCT", "NOV", "DEC">>[m])]

DigitSeq == Chars("0123456789")

DigitVal(c) == (CHOOSE i \in 1..10 : DigitSeq[i] = c) - 1

DaysInMonth(m, y) ==
    IF m = 2
    THEN (IF y % 4 = 0 /\ (y % 100 # 0 \/ y % 400 = 0) THEN 29 ELSE 28)
    ELSE IF m \in {4, 6, 9, 11} THEN 30 ELSE 31

ParserError == <<"<ParserError>">>

\* dtparser.parse(s, dayfirst=True).strftime("%d/%m/%Y")
dtparse_strftime(s) ==
    LET shaped ==
            /\ Len(s) = 11
            /\ s[3] = " " /\ s[7] = " "
            /\ \A i \in {1, 2, 8, 9, 10, 11} : s[i] \in Digits
            /\ \E m \in 1..12 : MonthsEN[m] = Slice(s, 4, 7)
        mon == CHOOSE m \in 1..12 : MonthsEN[m] = Slice(s, 4, 7)
        day == 10 * DigitVal(s[1]) + DigitVal(s[2])
        year == 1000 * DigitVal(s[8]) + 100 * DigitVal(s[9])
                    + 10 * DigitVal(s[10]) + DigitVal(s[11])
    IN  IF shaped /\ year >= 1 /\ day >= 1 /\ day <= DaysInMonth(mon, year)
        THEN Slice(s, 1, 3) \o <<"/", DigitSeq[(mon \div 10) + 1], DigitSeq[(mon % 10) + 1], "/">>
                 \o Slice(s, 8, 12)
        ELSE ParserError

RECURSIVE replaceMonths(_, _)
replaceMonths(s, k) ==
    IF k > Len(MONTH_PT_EN) THEN s
    ELSE replaceMonths(replace(s, MONTH_PT_EN[k][1], MONTH_PT_EN[k][2]), k + 1)

normalize_date(v) ==
    IF v.k # "str" THEN v
    ELSE LET s0 == replaceMonths(upper(strip(v.v, WS)), 1)
             s == IF RE_DATE_TOKEN_fullmatch(s0)
                  THEN Slice(s0, 1, 3) \o <<" ">> \o Slice(s0, 3, 6) \o s_SP20 \o Slice(s0, 6, 8)
                  ELSE s0
             d == dtparse_strftime(s)
         IN  IF d = ParserError THEN v ELSE Str(d)

(***************************************************************************)
(* parse_details. The dict it returns is a record over the eight keys; a   *)
(* key the dict does not hold is Absent, a key holding None is None.       *)
(***************************************************************************)
SEP == {" ", "/", "-"}

CCY_WHITELIST ==
    {Chars("USD"), Chars("EUR"), Chars("GBP"), Chars("CHF"), Chars("BRL"), Chars("CAD"),
     Chars("JPY")}

contains(s, sub) == \E i \in 1..(Len(s) + 1) : startswithAt(s, i, sub)

_clean_num(s) ==
    LET x == lstrip(replace(s, <<",">>, <<>>), {"0"})
    IN  IF x = <<>> THEN <<"0">> ELSE x

\* rest[:m.start()] + rest[m.end():]
excise(rest, m) == Slice(rest, 1, m.s) \o Slice(rest, m.e, Len(rest) + 1)

\* code, rest of a match: the span cut out of rest, both trimmed of " /-"
advice_cut(rest, m, code) == [code |-> code, rest |-> strip(excise(rest, m), SEP)]

extract_advice_generic(rest, m) ==
    IF m.found THEN advice_cut(rest, m, group0(rest, m)) ELSE [code |-> None, rest |-> rest]

extract_advice_fx(rest, m) ==
    IF m.found THEN advice_cut(rest, m, group0(rest, m))
    ELSE extract_advice_generic(rest, RE_GENERIC_ADV(rest))

extract_advice_label(rest, m) ==
    IF m.found THEN advice_cut(rest, m, strip(m.g[1], SEP))
    ELSE extract_advice_fx(rest, RE_FX_CODE(rest))

_extract_advice(rest) == extract_advice_label(rest, RE_ADVICE(rest))

EmptyDict ==
    [Det_Tipo |-> Absent, Det_Advice |-> Absent, Det_Qty1 |-> Absent, Det_Qty2 |-> Absent,
     Det_Ccy |-> Absent, Det_Date |-> Absent, Det_AdviceType |-> Absent,
     Det_AssetName |-> Absent]

\* the first whitelisted code of reversed(RE_CCY.findall(t)), or None
lastWhitelisted(t) ==
    LET found == RE_CCY_findall(t)
        ok == {i \in 1..Len(found) : found[i] \in CCY_WHITELIST}
    IN  IF ok = {} THEN None ELSE found[Max(ok)]

\* out['Det_AssetName'] = remaining or None; return out
details_residual(tipo, advice, qty1, qty2, ccy, date, adviceType, remaining) ==
    [Det_Tipo |-> tipo,
     Det_Advice |-> IF advice = None \/ advice = <<>> THEN Absent ELSE advice,
     Det_Qty1 |-> qty1,
     Det_Qty2 |-> qty2,
     Det_Ccy |-> ccy,
     Det_Date |-> date,
     Det_AdviceType |-> adviceType,
     Det_AssetName |-> IF remaining = <<>> THEN None ELSE remaining]

\* madv = re.search(r'[A-Z ]+ADVICE', txt), on the whole text
details_advice_type(txt, tipo, advice, qty1, qty2, ccy, date, remaining, madv) ==
    details_residual(tipo, advice, qty1, qty2, ccy, date,
                     IF madv.found THEN strip(group0(txt, madv), WS) ELSE Absent,
                     remaining)

\* mdt = RE_DATE_TOKEN.search(remaining): the token normalised, and every
\* occurrence of it taken out of remaining
details_date(txt, tipo, advice, qty1, qty2, ccy, remaining, mdt) ==
    details_advice_type(txt, tipo, advice, qty1, qty2, ccy,
                        IF mdt.found THEN normalize_date(Str(group0(remaining, mdt))).v
                        ELSE Absent,
                        IF mdt.found
                        THEN strip(replace(remaining, group0(remaining, mdt), <<>>), WS)
                        ELSE remaining,
                        RE_ADVTYPE(txt))

\* the code found is cut from remaining only where remaining ends with it
details_strip_ccy(ccy, remaining) ==
    IF ccy # None /\ endswith(upper(remaining), ccy)
    THEN strip(rstrip(Slice(remaining, 1, Len(remaining) - Len(ccy) + 1), {" ", "-"}), WS)
    ELSE remaining

details_ccy_found(txt, tipo, advice, qty1, qty2, ccy, remaining) ==
    details_date(txt, tipo, advice, qty1, qty2, ccy, remaining, RE_DATE_TOKEN(remaining))

\* for c in reversed(RE_CCY.findall(remaining or rest)): ...
details_ccy(txt, tipo, advice, rest, qty1, qty2, remaining) ==
    details_ccy_found(txt, tipo, advice, qty1, qty2,
                      lastWhitelisted(IF remaining # <<>> THEN remaining ELSE rest),
                      details_strip_ccy(lastWhitelisted(IF remaining # <<>> THEN remaining ELSE rest),
                                        remaining))

\* the quantities: the slash pair, else the labelled ones, else (SECURITIES
\* types with no Det_Qty1 yet) the first standalone number; qty_end is kept as
\* the 1-based position where rest[qty_end:] starts
details_qty(txt, tipo, advice, rest, m, mq1, mq2, mnum) ==
    LET standalone ==
            /\ ~m.found
            /\ contains(IF tipo = None THEN <<>> ELSE tipo, s_SECURITIES)
            /\ ~mq1.found
            /\ mnum.found
        e1 == IF mq1.found THEN mq1.e ELSE 1
        e2 == IF mq2.found THEN Max({e1, mq2.e}) ELSE e1
        qty_end == IF m.found THEN m.e ELSE IF standalone THEN mnum.e ELSE e2
    IN  details_ccy(txt, tipo, advice, rest,
                    IF m.found THEN _clean_num(m.g[1])
                    ELSE IF mq1.found THEN _clean_num(mq1.g[1])
                    ELSE IF standalone THEN _clean_num(group0(rest, mnum))
                    ELSE Absent,
                    IF m.found THEN _clean_num(m.g[2])
                    ELSE IF mq2.found THEN _clean_num(mq2.g[1])
                    ELSE Absent,
                    strip(lstrip(Slice(rest, qty_end, Len(rest) + 1), SEP), WS))

\* advice, rest = _extract_advice(rest)
details_advice(txt, tipo, adv) ==
    details_qty(txt, tipo, adv.code, adv.rest, RE_SLASH_QTY(adv.rest), RE_QTY_PT1(adv.rest),
                RE_QTY_PT2(adv.rest), RE_QTY_STANDALONE(adv.rest))

\* m_tipo = re.match(r"^[A-Z ]+", txt): tipo, and the rest after it
details_tipo(txt, m_tipo) ==
    details_advice(txt,
                   IF m_tipo.found THEN strip(group0(txt, m_tipo), WS) ELSE None,
                   _extract_advice(IF m_tipo.found
                                   THEN strip(lstrip(Slice(txt, m_tipo.e, Len(txt) + 1), SEP), WS)
                                   ELSE txt))

details_txt(txt) == details_tipo(txt, RE_TIPO(txt))

parse_details(raw) == IF raw.k # "str" THEN EmptyDict ELSE details_txt(strip(raw.v, WS))

\* what the stages of parse_details hand on for the narration raw: tipo, the
\* advice code and the rest the quantity stage searches, its four matches,
\* whether the standalone fallback fires, remaining as the quantity stage leaves
\* it and as the currency stage leaves it
details_stages(raw) ==
    LET txt == strip(raw, WS)
        m_tipo == RE_TIPO(txt)
        tipo == IF m_tipo.found THEN strip(group0(txt, m_tipo), WS) ELSE None
        adv == _extract_advice(IF m_tipo.found
                               THEN strip(lstrip(Slice(txt, m_tipo.e, Len(txt) + 1), SEP), WS)
                               ELSE txt)
        rest == adv.rest
        m == RE_SLASH_QTY(rest)
        mq1 == RE_QTY_PT1(rest)
        mq2 == RE_QTY_PT2(rest)
        mnum == RE_QTY_STANDALONE(rest)
        securities == contains(IF tipo = None THEN <<>> ELSE tipo, s_SECURITIES)
        standalone == ~m.found /\ securities /\ ~mq1.found /\ mnum.found
        e1 == IF mq1.found THEN mq1.e ELSE 1
        e2 == IF mq2.found THEN Max({e1, mq2.e}) ELSE e1
        qty_end == IF m.found THEN m.e ELSE IF standalone THEN mnum.e ELSE e2
        remaining == strip(lstrip(Slice(rest, qty_end, Len(rest) + 1), SEP), WS)
        ccy == lastWhitelisted(IF remaining # <<>> THEN remaining ELSE rest)
    IN  [txt |-> txt, tipo |-> tipo, advice |-> adv.code, rest |-> rest,
         m |-> m, mq1 |-> mq1, mq2 |-> mq2, mnum |-> mnum,
         securities |-> securities, standalone |-> standalone,
         remaining |-> remaining, ccy |-> ccy,
         stripped |-> details_strip_ccy(ccy, remaining)]

(***************************************************************************)
(* _dedup_columns: the loop over the names, with the dict seen.            *)
(***************************************************************************)
\* str(k) for an int k >= 0
RECURSIVE IntStr(_)
IntStr(k) == IF k < 10 THEN <<DigitSeq[k + 1]>> ELSE IntStr(k \div 10) \o <<DigitSeq[(k % 10) + 1]>>

\* seen.get(col, 0)
get(seen, col) == IF col \in DOMAIN seen THEN seen[col] ELSE 0

\* f"{col}_{k}" if k else col
dedup_name(col, k) == IF k # 0 THEN col \o <<"_">> \o IntStr(k) ELSE col

RECURSIVE dedup_loop(_, _, _, _)
dedup_loop(cols, i, seen, res) ==
    IF i > Len(cols) THEN res
    ELSE LET col == IF cols[i] = <<>> THEN <<"_">> ELSE cols[i]
             k == get(seen, col)
         IN  dedup_loop(cols, i + 1,
                        [x \in DOMAIN seen \cup {col} |-> IF x = col THEN k + 1 ELSE seen[x]],
                        Append(res, dedup_name(col, k)))

_dedup_columns(cols) == dedup_loop(cols, 1, [x \in {} |-> 0], <<>>)

(***************************************************************************)
(* The sheets. A DataFrame read with header=None is a sequence of rows of  *)
(* cells, all of one width; a row keeps its index label idx (its position  *)
(* in the sheet) through iloc slicing, dropna and boolean selection. A     *)
(* subtable is [columns, rows]: the column names and the rows' cells,      *)
(* aligned. A call returns [raised, subtables]: raised is TRUE when an     *)
(* exception left the function, which then returned nothing.               *)
(***************************************************************************)
isna(c) == c.k \in {"nan", "none"}

\* df.iloc[a:b] with the index labels, on 1-based rows a .. b-1
iloc(df, a, b) == [j \in 1..(IF b > a THEN b - a ELSE 0) |-> [idx |-> a + j - 1, cells |-> df[a + j - 1]]]

notAllNa(row) == \E j \in DOMAIN row.cells : ~isna(row.cells[j])

\* DataFrame.dropna(how="all")
dropna_all(rows) == SelectSeq(rows, notAllNa)

notSkipped(row) == UPPER_STRIP(row.cells[1]) \notin KEYWORDS_SKIP

\* data[~data.iloc[:, 0].apply(lambda x: UPPER_STRIP(x) in KEYWORDS_SKIP)]
drop_keywords(rows) == SelectSeq(rows, notSkipped)

\* re.search(r"DATA|DATE", col, re.I)
isDateColumn(col) == contains(upper(col), s_DATA) \/ contains(upper(col), s_DATE)

\* for col in columns: if DATA|DATE in col: data[col] = data[col].apply(normalize_date).
\* Under a name that two columns share data[col] is a DataFrame, whose apply hands
\* normalize_date whole columns, which it returns as they are.
normalize_date_columns(t) ==
    LET unique(j) == \A h \in DOMAIN t.columns : t.columns[h] = t.columns[j] => h = j
    IN  [columns |-> t.columns,
         rows |-> [i \in DOMAIN t.rows |->
                     [idx |-> t.rows[i].idx,
                      cells |-> [j \in DOMAIN t.columns |->
                                    IF isDateColumn(t.columns[j]) /\ unique(j)
                                    THEN normalize_date(t.rows[i].cells[j])
                                    ELSE t.rows[i].cells[j]]]]]

\* DataFrame.insert(loc, column, value): ValueError when the column exists
insert_raises(t, column) == \E j \in DOMAIN t.columns : t.columns[j] = column

insert(t, loc, column, value) ==
    [columns |-> SubSeq(t.columns, 1, loc) \o <<column>> \o SubSeq(t.columns, loc + 1, Len(t.columns)),
     rows |-> [i \in DOMAIN t.rows |->
                 [idx |-> t.rows[i].idx,
                  cells |-> SubSeq(t.rows[i].cells, 1, loc) \o <<value>>
                                \o SubSeq(t.rows[i].cells, loc + 1, Len(t.rows[i].cells))]]]

\* [str(v).strip() for v in header]
header_names(header) == [j \in DOMAIN header |-> strip(header[j].v, WS)]

Returned(subtables) == [raised |-> FALSE, subtables |-> subtables]

Raised == [raised |-> TRUE, subtables |-> <<>>]

HOLDINGS_ANCHORS == {Chars("ISIN"), Chars("NÚMERO DE CONTA")}

\* the anchors (r, c) in row-major order, from position (r, c) on
RECURSIVE holdings_headers_from(_, _, _)
holdings_headers_from(df, r, c) ==
    IF r > Len(df) THEN <<>>
    ELSE IF c > Len(df[r]) THEN holdings_headers_from(df, r + 1, 1)
    ELSE (IF UPPER_STRIP(df[r][c]) \in HOLDINGS_ANCHORS THEN << <<r, c>> >> ELSE <<>>)
             \o holdings_headers_from(df, r, c + 1)

holdings_headers(df) == holdings_headers_from(df, 1, 1)

\* data = df.iloc[r + 1 : next_r].copy().dropna(how="all"), less the keyword rows
holdings_data(df, r, next_r) == drop_keywords(dropna_all(iloc(df, r + 1, next_r)))

\* data.insert(0, "Portfolio", ...), (1, "AssetType", ...), (2, "AssetName", ...),
\* the date columns, subtables.append(data)
holdings_insert2(t, asset_name) ==
    IF insert_raises(t, s_AssetName) THEN Raised
    ELSE Returned(<<normalize_date_columns(insert(t, 2, s_AssetName, asset_name))>>)

holdings_insert1(t, asset_type, asset_name) ==
    IF insert_raises(t, s_AssetType) THEN Raised
    ELSE holdings_insert2(insert(t, 1, s_AssetType, asset_type), asset_name)

holdings_insert(t, portfolio, asset_type, asset_name) ==
    IF insert_raises(t, s_Portfolio) THEN Raised
    ELSE holdings_insert1(insert(t, 0, s_Portfolio, Str(portfolio)), asset_type, asset_name)

\* one pass of the loop over headers with data that is not empty
holdings_subtable(df, portfolio, r, c, data) ==
    holdings_insert([columns |-> _dedup_columns(header_names(df[r])), rows |-> data],
                    portfolio,
                    IF r > 1 /\ c > 1 THEN Str(UPPER_STRIP(df[r - 1][c - 1])) ELSE NoneCell,
                    IF c > 1 THEN Str(strip(df[r][c - 1].v, WS)) ELSE NoneCell)

RECURSIVE holdings_loop(_, _, _, _, _)
holdings_append(df, portfolio, headers, i, subtables, one) ==
    IF one.raised THEN Raised
    ELSE holdings_loop(df, portfolio, headers, i + 1, subtables \o one.subtables)

\* a variant without "if data.empty: continue"
holdings_pass_keeps_empty(df, portfolio, headers, i, subtables, data) ==
    holdings_append(df, portfolio, headers, i, subtables,
                    holdings_subtable(df, portfolio, headers[i][1], headers[i][2], data))

holdings_pass(df, portfolio, headers, i, subtables, data) ==
    IF data = <<>> THEN holdings_loop(df, portfolio, headers, i + 1, subtables)
    ELSE holdings_append(df, portfolio, headers, i, subtables,
                         holdings_subtable(df, portfolio, headers[i][1], headers[i][2], data))

holdings_loop(df, portfolio, headers, i, subtables) ==
    IF i > Len(headers) THEN Returned(subtables)
    ELSE holdings_pass(df, portfolio, headers, i, subtables,
                       holdings_data(df, headers[i][1],
                                     IF i + 1 <= Len(headers) THEN headers[i + 1][1]
                                     ELSE Len(df) + 1))

parse_holdings_sheet(df, portfolio) ==
    holdings_loop(df, portfolio, holdings_headers(df), 1, <<>>)

\* idxs = [i for i, v in df.iloc[:, 0].items() if UPPER_STRIP(v) == "CARTEIRA"]
transactions_idxs(df) ==
    LET rows == SelectSeq(iloc(df, 1, Len(df) + 1),
                          LAMBDA row : UPPER_STRIP(row.cells[1]) = s_CARTEIRA)
    IN  [j \in DOMAIN rows |-> rows[j].idx]

\* body = df.iloc[start + 1 : end].copy().dropna(how="all")
transactions_body(df, start, end) == dropna_all(iloc(df, start + 1, end))

DET_KEYS ==
    <<"Det_Tipo", "Det_Advice", "Det_Qty1", "Det_Qty2", "Det_Ccy", "Det_Date",
      "Det_AdviceType", "Det_AssetName">>

DET_NAMES == [h \in DOMAIN DET_KEYS |-> Chars(DET_KEYS[h])]

\* .apply(pd.Series) on the dicts: one row per row of body, one column per key
\* that some row's dict holds; a dict without the key gives NaN
details_frame(body, dicts, held) ==
    [columns |-> [h \in DOMAIN held |-> DET_NAMES[held[h]]],
     rows |-> [i \in DOMAIN body.rows |->
                 [idx |-> body.rows[i].idx,
                  cells |-> [h \in DOMAIN held |->
                                IF dicts[i][DET_KEYS[held[h]]] = Absent THEN NaN
                                ELSE AsCell(dicts[i][DET_KEYS[held[h]]])]]]]

details_series(body, dicts) ==
    details_frame(body, dicts,
                  SelectSeq([h \in DOMAIN DET_KEYS |-> h],
                            LAMBDA h : \E i \in DOMAIN dicts : dicts[i][DET_KEYS[h]] # Absent))

\* body[det_col].apply(parse_details).apply(pd.Series)
details_expanded(body, j) ==
    details_series(body, [i \in DOMAIN body.rows |-> parse_details(body.rows[i].cells[j])])

\* pd.concat([body, details_expanded], axis=1) of two frames with the same index
concat_columns(a, b) ==
    [columns |-> a.columns \o b.columns,
     rows |-> [i \in DOMAIN a.rows |->
                 [idx |-> a.rows[i].idx, cells |-> a.rows[i].cells \o b.rows[i].cells]]]

\* det_col = next((c for c in body.columns if UPPER_STRIP(c) in {...}), None)
det_cols(body) ==
    {j \in DOMAIN body.columns : UPPER_STRIP(Str(body.columns[j])) \in {s_DETALHES, s_DETAILS}}

\* if det_col: body = pd.concat([body, details_expanded], axis=1)
expand_details_at(body, det) ==
    IF det = {} THEN body ELSE concat_columns(body, details_expanded(body, Min(det)))

expand_details(body) == expand_details_at(body, det_cols(body))

\* body.insert(0, "Portfolio", portfolio); out.append(body)
transactions_insert(t, portfolio) ==
    IF insert_raises(t, s_Portfolio) THEN Raised
    ELSE Returned(<<insert(t, 0, s_Portfolio, Str(portfolio))>>)

\* one pass of the loop over idxs with a body that is not empty
transactions_subtable(df, portfolio, start, body) ==
    transactions_insert(
        normalize_date_columns(
            expand_details([columns |-> _dedup_columns(header_names(df[start])), rows |-> body])),
        portfolio)

RECURSIVE transactions_loop(_, _, _, _, _)
transactions_append(df, portfolio, idxs, i, out, one) ==
    IF one.raised THEN Raised
    ELSE transactions_loop(df, portfolio, idxs, i + 1, out \o one.subtables)

transactions_pass(df, portfolio, idxs, i, out, body) ==
    IF body = <<>> THEN transactions_loop(df, portfolio, idxs, i + 1, out)
    ELSE transactions_append(df, portfolio, idxs, i, out,
                             transactions_subtable(df, portfolio, idxs[i], body))

transactions_loop(df, portfolio, idxs, i, out) ==
    IF i > Len(idxs) THEN Returned(out)
    ELSE transactions_pass(df, portfolio, idxs, i, out,
                           transactions_body(df, idxs[i],
                                             IF i + 1 <= Len(idxs) THEN idxs[i + 1]
                                             ELSE Len(df) + 1))

parse_transactions_sheet(df, portfolio) ==
    transactions_loop(df, portfolio, transactions_idxs(df), 1, <<>>)

(***************************************************************************)
(* The calls. Each behaviour is one call of one function on one input: the *)
(* input is drawn in Init, the action applies the function. The inputs are *)
(* bounded: lists of at most MaxCols names, narrations of at most          *)
(* MaxTokens tokens (and the narrations the specification's examples use), *)
(* sheets of at most MaxRows rows.                                         *)
(***************************************************************************)
MaxCols == 3

MaxTokens == 3

MaxRows == 4

BoundedSeqs(S, n) == UNION {[1..k -> S] : k \in 0..n}

NAMES == {<<>>, Chars("A"), Chars("A_1"), Chars("B")}

DedupInputs == BoundedSeqs(NAMES, MaxCols)

DateInputs ==
    {Str(Chars("15MAI23")), Str(Chars(" 29fev24 ")), Str(Chars("31FEV24")), Str(Chars("15 MAY 2023")),
     Str(Chars("15XYZ23")), Str(Chars("NOT A DATE")), Str(<<>>), Num(Chars("42")), NaN}

PurchaseNarration ==
    Chars("SECURITIES PURCHASE ADVICE#: AB123.45 1,000/500 USD 15MAI23 PETROBRAS")

SaleNarration == Chars("SECURITIES SALE 250 EUR VALE")

TransferNarration == Chars("CASH TRANSFER FX20231099887 QUANTIDADE 1: 5,000 BRL")

TOKENS ==
    {Chars("SECURITIES SALE"), Chars("Dividend"), Chars("ADVICE#: AB123.45"),
     Chars("SCTRSC123456"), Chars("FX20231099887"), Chars("1,000/500"), Chars("250"),
     Chars("- QUANTIDADE 2: 007"), Chars("USD"), Chars("EUR"), Chars("15MAI23"), Chars("VALE"),
     Chars("vale")}

RECURSIVE join(_)
join(ts) == IF ts = <<>> THEN <<>>
            ELSE IF Len(ts) = 1 THEN ts[1]
            ELSE ts[1] \o <<" ">> \o join(Tail(ts))

DetailsInputs ==
    {Str(PurchaseNarration), Str(SaleNarration), Str(TransferNarration), Num(Chars("42")), NaN}
        \cup {Str(join(ts)) : ts \in BoundedSeqs(TOKENS, MaxTokens)}

PORTFOLIOS == {Chars("12345"), Chars("UNKNOWN")}

HOLDINGS_ROWS ==
    { <<Str(Chars("ISIN")), Str(Chars("Nome")), Str(Chars("Data"))>>,
      <<Str(Chars("Fundos")), Str(Chars("Número de Conta")), Str(Chars(" isin "))>>,
      <<Str(Chars("ISIN")), Str(Chars("AssetType")), Str(Chars("Portfolio"))>>,
      <<Str(Chars("BR01")), Str(Chars("Bond A")), Str(Chars("15MAI23"))>>,
      <<Str(Chars(" Total ")), Num(Chars("100")), NaN>>,
      <<NaN, NaN, NaN>>,
      <<NaN, Str(Chars("x")), Num(Chars("7"))>> }

TRANSACTIONS_ROWS ==
    { <<Str(Chars("Carteira")), Str(Chars("Detalhes")), Str(Chars("Data"))>>,
      <<Str(Chars(" CARTEIRA ")), Str(Chars("DETAILS")), Str(Chars("Portfolio"))>>,
      <<Str(Chars("CARTEIRA")), Str(Chars("Valor")), Str(Chars("Valor"))>>,
      <<Str(Chars("P1")), Str(SaleNarration), Str(Chars("15MAI23"))>>,
      <<Str(Chars("P1")), Num(Chars("42")), Str(Chars("x"))>>,
      <<Str(Chars("P2")), Str(<<>>), NaN>>,
      <<NaN, NaN, NaN>> }

HoldingsInputs ==
    {[df |-> df, portfolio |-> p] : df \in BoundedSeqs(HOLDINGS_ROWS, MaxRows), p \in PORTFOLIOS}

TransactionsInputs ==
    {[df |-> df, portfolio |-> p] : df \in BoundedSeqs(TRANSACTIONS_ROWS, MaxRows), p \in PORTFOLIOS}

Inputs(f) ==
    CASE f = "_dedup_columns" -> DedupInputs
      [] f = "normalize_date" -> DateInputs
      [] f = "parse_details" -> DetailsInputs
      [] f = "parse_holdings_sheet" -> HoldingsInputs
      [] f = "parse_transactions_sheet" -> TransactionsInputs

FUNCTIONS ==
    {"_dedup_columns", "normalize_date", "parse_details", "parse_holdings_sheet",
     "parse_transactions_sheet"}

Init ==
    /\ pc = "call"
    /\ fn \in FUNCTIONS
    /\ arg \in Inputs(fn)
    /\ ret = <<>>

Return(value) ==
    /\ ret' = value
    /\ pc' = "done"
    /\ UNCHANGED <<fn, arg>>

Call_dedup_columns ==
    /\ pc = "call" /\ fn = "_dedup_columns"
    /\ Return(_dedup_columns(arg))

Call_normalize_date ==
    /\ pc = "call" /\ fn = "normalize_date"
    /\ Return(normalize_date(arg))

Call_parse_details ==
    /\ pc = "call" /\ fn = "parse_details"
    /\ Return(parse_details(arg))

Call_parse_holdings_sheet ==
    /\ pc = "call" /\ fn = "parse_holdings_sheet"
    /\ Return(parse_holdings_sheet(arg.df, arg.portfolio))

Call_parse_transactions_sheet ==
    /\ pc = "call" /\ fn = "parse_transactions_sheet"
    /\ Return(parse_transactions_sheet(arg.df, arg.portfolio))

Next ==
    \/ Call_dedup_columns
    \/ Call_normalize_date
    \/ Call_parse_details
    \/ Call_parse_holdings_sheet
    \/ Call_parse_transactions_sheet

Spec == Init /\ [][Next]_vars

\* the call of f has returned
Done(f) == pc = "done" /\ fn = f
(***************************************************************************)
(* What the claims speak of, stated on the sheet itself.                   *)
(***************************************************************************)
\* the index labels of a subtable's rows, in order
Idxs(t) == [i \in DOMAIN t.rows |-> t.rows[i].idx]

Ascending(q) == \A i, j \in DOMAIN q : i < j => q[i] < q[j]

FullyEmpty(row) == \A j \in DOMAIN row : row[j].k \in {"nan", "none"}

\* row-major order of cells
Before(a, b) == a[1] < b[1] \/ (a[1] = b[1] /\ a[2] < b[2])

\* the holdings anchors of a sheet: the cells that normalise to an anchor text
AnchorCells(df) ==
    {a \in (DOMAIN df) \X (1..3) : a[2] \in DOMAIN df[a[1]] /\ UPPER_STRIP(df[a[1]][a[2]]) \in HOLDINGS_ANCHORS}

\* the row of the anchor that follows a, or the row after the sheet's last
NextAnchorRow(df, a) ==
    LET later == {b \in AnchorCells(df) : Before(a, b)}
    IN  IF later = {} THEN Len(df) + 1
        ELSE (CHOOSE b \in later : \A x \in later : x = b \/ Before(b, x))[1]

\* the rows anchor a keeps: after it, before the next anchor's row, not fully
\* empty, first cell not in the skip-list
KeptRows(df, a) ==
    {k \in (a[1] + 1)..(NextAnchorRow(df, a) - 1) :
        ~FullyEmpty(df[k]) /\ UPPER_STRIP(df[k][1]) \notin KEYWORDS_SKIP}

KeepingAnchors(df) == {a \in AnchorCells(df) : KeptRows(df, a) # {}}

\* the transactions anchors: the rows whose first cell normalises to CARTEIRA
AnchorRows(df) == {r \in DOMAIN df : UPPER_STRIP(df[r][1]) = s_CARTEIRA}

NextTxAnchor(df, r) ==
    LET later == {q \in AnchorRows(df) : q > r}
    IN  IF later = {} THEN Len(df) + 1 ELSE Min(later)

BodyRows(df, r) == {k \in (r + 1)..(NextTxAnchor(df, r) - 1) : ~FullyEmpty(df[k])}

BodyAnchors(df) == {r \in AnchorRows(df) : BodyRows(df, r) # {}}

(***************************************************************************)
(* C1: parse_details on "SECURITIES PURCHASE ADVICE#: AB123.45 1,000/500   *)
(* USD 15MAI23 PETROBRAS" gives tipo "SECURITIES PURCHASE", advice code    *)
(* "AB123.45", quantities "1000" and "500", currency "USD", date           *)
(* "15/05/2023" and residual name "PETROBRAS".                             *)
(***************************************************************************)
C1_PurchaseDecomposition ==
    (Done("parse_details") /\ arg = Str(PurchaseNarration)) =>
        /\ ret.Det_Tipo = Chars("SECURITIES PURCHASE")
        /\ ret.Det_Advice = Chars("AB123.45")
        /\ ret.Det_Qty1 = Chars("1000")
        /\ ret.Det_Qty2 = Chars("500")
        /\ ret.Det_Ccy = Chars("USD")
        /\ ret.Det_Date = Chars("15/05/2023")
        /\ ret.Det_AssetName = Chars("PETROBRAS")

(***************************************************************************)
(* C2: parse_details on "SECURITIES SALE 250 EUR VALE" gives tipo          *)
(* "SECURITIES SALE", first quantity "250" (the standalone number),        *)
(* currency "EUR" and residual name "VALE": the currency code found is not *)
(* part of the residual name.                                              *)
(***************************************************************************)
C2_SaleDecomposition ==
    (Done("parse_details") /\ arg = Str(SaleNarration)) =>
        /\ ret.Det_Tipo = Chars("SECURITIES SALE")
        /\ ret.Det_Qty1 = Chars("250")
        /\ ret.Det_Ccy = Chars("EUR")
        /\ ret.Det_AssetName = Chars("VALE")

\* what the two narrations decompose to
NarrationsYield ==
    Done("parse_details") =>
        /\ arg = Str(PurchaseNarration) =>
               ret = [Det_Tipo |-> Chars("SECURITIES PURCHASE ADVICE"), Det_Advice |-> Absent,
                      Det_Qty1 |-> Chars("1000"), Det_Qty2 |-> Chars("500"),
                      Det_Ccy |-> Chars("USD"), Det_Date |-> Chars("15/05/2023"),
                      Det_AdviceType |-> Chars("SECURITIES PURCHASE ADVICE"),
                      Det_AssetName |-> Chars("USD  PETROBRAS")]
        /\ arg = Str(SaleNarration) =>
               ret = [Det_Tipo |-> Chars("SECURITIES SALE"), Det_Advice |-> Absent,
                      Det_Qty1 |-> Chars("250"), Det_Qty2 |-> Absent,
                      Det_Ccy |-> Chars("EUR"), Det_Date |-> Absent,
                      Det_AdviceType |-> Absent, Det_AssetName |-> Chars("EUR VALE")]

(***************************************************************************)
(* C3: _dedup_columns returns a list of the same length, in the same       *)
(* order, in which no two names are equal; the first occurrence of a name  *)
(* is unchanged (an empty name is "_") and its k-th repeat has the suffix  *)
(* "_k".                                                                   *)
(***************************************************************************)
C3_DedupUnique ==
    Done("_dedup_columns") =>
        LET name(i) == IF arg[i] = <<>> THEN <<"_">> ELSE arg[i]
            repeats(i) == Cardinality({j \in 1..(i - 1) : name(j) = name(i)})
        IN  /\ Len(ret) = Len(arg)
            /\ \A i \in DOMAIN arg :
                   ret[i] = IF repeats(i) = 0 THEN name(i)
                            ELSE name(i) \o <<"_">> \o IntStr(repeats(i))
            /\ \A i, j \in DOMAIN ret : i # j => ret[i] # ret[j]

(***************************************************************************)
(* C4: parse_holdings_sheet and parse_transactions_sheet return a list of  *)
(* subtables, empty when the sheet has no anchor, and never raise.         *)
(***************************************************************************)
C4_ParsersNeverRaise ==
    /\ Done("parse_holdings_sheet") =>
           ~ret.raised /\ (AnchorCells(arg.df) = {} => ret.subtables = <<>>)
    /\ Done("parse_transactions_sheet") =>
           ~ret.raised /\ (AnchorRows(arg.df) = {} => ret.subtables = <<>>)

(***************************************************************************)
(* C5: parse_holdings_sheet emits one subtable per anchor that keeps a     *)
(* row, in row-major anchor order; the subtable holds exactly the rows the *)
(* anchor keeps, in sheet order; no row is in two subtables and no emitted *)
(* row's first sheet cell normalises to TOTAL.                             *)
(***************************************************************************)
HoldingsSegmented ==
    LET df == arg.df
        keeping == KeepingAnchors(df)
        \* the anchor of the j-th subtable
        nth(j) == CHOOSE a \in keeping : Cardinality({b \in keeping : Before(b, a)}) = j - 1
    IN  /\ Len(ret.subtables) = Cardinality(keeping)
        /\ \A j \in DOMAIN ret.subtables :
               /\ Ascending(Idxs(ret.subtables[j]))
               /\ Range(Idxs(ret.subtables[j])) = KeptRows(df, nth(j))
               /\ \A i \in DOMAIN ret.subtables[j].rows :
                      UPPER_STRIP(ret.subtables[j].rows[i].cells[4]) # Chars("TOTAL")
        /\ \A j, h \in DOMAIN ret.subtables :
               j # h => Range(Idxs(ret.subtables[j])) \cap Range(Idxs(ret.subtables[h])) = {}

C5_HoldingsSegmentation ==
    Done("parse_holdings_sheet") => (~ret.raised /\ HoldingsSegmented)

\* the same of the calls that return: the segmentation of the holdings sheets
\* that no header cell makes raise
HoldingsSegmentationIfReturned ==
    (Done("parse_holdings_sheet") /\ ~ret.raised) => HoldingsSegmented

(***************************************************************************)
(* C6: every subtable that parse_holdings_sheet or                         *)
(* parse_transactions_sheet emits has at least one row and is the subtable *)
(* of an anchor that keeps a row: an anchor whose body is empty (after the *)
(* fully empty rows and, for holdings, the skip-listed rows are dropped)   *)
(* contributes nothing.                                                    *)
(***************************************************************************)
C6_NoEmptySubtable ==
    /\ Done("parse_holdings_sheet") =>
           /\ Len(ret.subtables) <= Cardinality(KeepingAnchors(arg.df))
           /\ \A j \in DOMAIN ret.subtables :
                  /\ Len(ret.subtables[j].rows) >= 1
                  /\ \E a \in KeepingAnchors(arg.df) :
                         Range(Idxs(ret.subtables[j])) = KeptRows(arg.df, a)
    /\ Done("parse_transactions_sheet") =>
           /\ Len(ret.subtables) <= Cardinality(BodyAnchors(arg.df))
           /\ \A j \in DOMAIN ret.subtables :
                  /\ Len(ret.subtables[j].rows) >= 1
                  /\ \E r \in BodyAnchors(arg.df) :
                         Range(Idxs(ret.subtables[j])) = BodyRows(arg.df, r)

\* a holdings sheet where an anchor that keeps rows is followed by two anchors
\* with empty bodies, one directly followed by an anchor and one that is last
C6_EmptyBodiesSkipped ==
    /\ Done("parse_holdings_sheet")
    /\ ~ret.raised
    /\ Len(ret.subtables) = 1
    /\ \E a, b, c \in AnchorCells(arg.df) :
           /\ a \in KeepingAnchors(arg.df)
           /\ Before(a, b) /\ Before(b, c)
           /\ KeptRows(arg.df, b) = {} /\ NextAnchorRow(arg.df, b) = c[1]
           /\ KeptRows(arg.df, c) = {} /\ NextAnchorRow(arg.df, c) = Len(arg.df) + 1

(***************************************************************************)
(* C7: parse_transactions_sheet emits, for each anchor row with a body,    *)
(* a subtable with exactly one row per not fully empty sheet row between   *)
(* the anchor and the next, in sheet order, whatever the details column    *)
(* holds.                                                                  *)
(***************************************************************************)
TransactionsRowsKept ==
    LET df == arg.df
        anchors == BodyAnchors(df)
        nth(j) == CHOOSE r \in anchors : Cardinality({q \in anchors : q < r}) = j - 1
    IN  /\ Len(ret.subtables) = Cardinality(anchors)
        /\ \A j \in DOMAIN ret.subtables :
               /\ Ascending(Idxs(ret.subtables[j]))
               /\ Range(Idxs(ret.subtables[j])) = BodyRows(df, nth(j))

C7_DetailsKeepsRows ==
    Done("parse_transactions_sheet") => (~ret.raised /\ TransactionsRowsKept)

\* the same of the calls that return
TransactionsRowsKeptIfReturned ==
    (Done("parse_transactions_sheet") /\ ~ret.raised) => TransactionsRowsKept
(***************************************************************************)
(* C8: the quantity stage of parse_details cuts only the span of the       *)
(* alternative that fired out of the rest: the text before the match (and  *)
(* between two labelled quantities) is kept, and the currency, date and    *)
(* residual stages work on it.                                             *)
(***************************************************************************)
\* the characters of t from position i on that lie in none of the spans
RECURSIVE Outside(_, _, _)
Outside(t, spans, i) ==
    IF i > Len(t) THEN <<>>
    ELSE (IF \E m \in spans : m.s <= i /\ i < m.e THEN <<>> ELSE <<t[i]>>)
             \o Outside(t, spans, i + 1)

\* the spans of the quantity matches that set a quantity
QuantitySpans(st) ==
    IF st.m.found THEN {st.m}
    ELSE {x \in {st.mq1, st.mq2} : x.found} \cup (IF st.standalone THEN {st.mnum} ELSE {})

C8_QuantityCutsOnlyItsSpan ==
    (Done("parse_details") /\ arg.k = "str") =>
        LET st == details_stages(arg.v)
            kept == strip(lstrip(Outside(st.rest, QuantitySpans(st), 1), SEP), WS)
            later == details_ccy(st.txt, st.tipo, st.advice, st.rest,
                                 ret.Det_Qty1, ret.Det_Qty2, kept)
        IN  QuantitySpans(st) # {} =>
                /\ ret.Det_Ccy = later.Det_Ccy
                /\ ret.Det_Date = later.Det_Date
                /\ ret.Det_AssetName = later.Det_AssetName

(***************************************************************************)
(* C9: the quantity alternatives of parse_details are exclusive by         *)
(* priority: the labelled quantities are searched only when the slash pair *)
(* did not match, and the standalone number becomes qty1 only when tipo    *)
(* contains SECURITIES and no earlier alternative captured a quantity,     *)
(* neither qty1 nor qty2.                                                  *)
(***************************************************************************)
C9_QuantityAlternativesExclusive ==
    (Done("parse_details") /\ arg.k = "str") =>
        LET st == details_stages(arg.v)
            fallback == /\ ~st.m.found /\ ~st.mq1.found /\ ~st.mq2.found
                        /\ st.securities /\ st.mnum.found
        IN  /\ st.m.found =>
                /\ ret.Det_Qty1 = _clean_num(st.m.g[1])
                /\ ret.Det_Qty2 = _clean_num(st.m.g[2])
            /\ ~st.m.found =>
                /\ ret.Det_Qty1 = IF st.mq1.found THEN _clean_num(st.mq1.g[1])
                                  ELSE IF fallback THEN _clean_num(group0(st.rest, st.mnum))
                                  ELSE Absent
                /\ ret.Det_Qty2 = IF st.mq2.found THEN _clean_num(st.mq2.g[1]) ELSE Absent

(***************************************************************************)
(* C10: when the remainder the date stage of parse_details is handed holds *)
(* a DDMMMYY token, date is the first token through normalize_date, and    *)
(* only the first occurrence of the token is taken out of the remainder: a *)
(* second occurrence stays in the residual name.                           *)
(***************************************************************************)
\* s without the first occurrence of old
ReplaceFirst(s, old) ==
    LET at == {i \in 1..Len(s) : startswithAt(s, i, old)}
    IN  IF at = {} THEN s
        ELSE Slice(s, 1, Min(at)) \o Slice(s, Min(at) + Len(old), Len(s) + 1)

C10_DateTokenFirstOccurrence ==
    (Done("parse_details") /\ arg.k = "str") =>
        LET st == details_stages(arg.v)
            mdt == RE_DATE_TOKEN(st.stripped)
            token == group0(st.stripped, mdt)
            left == strip(ReplaceFirst(st.stripped, token), WS)
        IN  mdt.found =>
                /\ ret.Det_Date = normalize_date(Str(token)).v
                /\ ret.Det_AssetName = IF left = <<>> THEN None ELSE left

\* the same of the narrations that hold the token once: what is wrong is only
\* the fate of a repeated token
DateTokenTakenOutIfOnce ==
    (Done("parse_details") /\ arg.k = "str") =>
        LET st == details_stages(arg.v)
            mdt == RE_DATE_TOKEN(st.stripped)
            token == group0(st.stripped, mdt)
            left == strip(ReplaceFirst(st.stripped, token), WS)
        IN  (mdt.found /\ ~contains(ReplaceFirst(st.stripped, token), token)) =>
                /\ ret.Det_Date = normalize_date(Str(token)).v
                /\ ret.Det_AssetName = IF left = <<>> THEN None ELSE left
====
